---- MODULE Spec2Model ----
(***************************************************************************)
(* simple-bdb: the Database class of src/index.ts, a path-addressed        *)
(* key-value store kept in memory and persisted as one MessagePack file.   *)
(*                                                                         *)
(* Strings (keys, property names, string values) are sequences of          *)
(* one-character strings, so that split('.'), join('.') and lodash's path  *)
(* tokenizer are computed, not assumed.  JavaScript values are records     *)
(*   [t, n, s, e, p]                                                       *)
(* t the type tag, n the number (or 0/1 for a boolean), s the characters   *)
(* of a string, e the indexed elements of an array (Undef marks a hole),   *)
(* p the own named properties in enumeration order (the entries of a plain *)
(* object, or the non-index properties of an array).                       *)
(***************************************************************************)
EXTENDS Integers, Sequences, FiniteSets, TLC

VARIABLES
  data,       \* this.data of the Database instance
  file,       \* the file at this.filePath
  autoSave,   \* this.autoSave
  last,       \* the call just made on the instance and what it returned
  cacheData,  \* the cacheData option handed to the constructor
  disk,       \* how fs.writeFileSync on the file ends: "ok", "denied", "full"
  other       \* a second Database instance on the same file, when there is one

vars == <<data, file, autoSave, last, cacheData, disk, other>>

\* what no method of the instance changes
fixed == <<autoSave, cacheData, disk, other>>

----------------------------------------------------------------------------
(* Bounds of the exploration *)

\* largest number of tree nodes a Document may hold
MaxSize == 3
\* largest absolute value a stored number may take
MaxNum == 2

----------------------------------------------------------------------------
(* JavaScript values *)

Undef == [t |-> "undef", n |-> 0, s |-> <<>>, e |-> <<>>, p |-> <<>>]
Null == [t |-> "null", n |-> 0, s |-> <<>>, e |-> <<>>, p |-> <<>>]
Bool(b) == [t |-> "bool", n |-> IF b THEN 1 ELSE 0, s |-> <<>>, e |-> <<>>, p |-> <<>>]
Num(i) == [t |-> "num", n |-> i, s |-> <<>>, e |-> <<>>, p |-> <<>>]
Str(cs) == [t |-> "str", n |-> 0, s |-> cs, e |-> <<>>, p |-> <<>>]
Arr(es) == [t |-> "arr", n |-> 0, s |-> <<>>, e |-> es, p |-> <<>>]
Obj(ps) == [t |-> "obj", n |-> 0, s |-> <<>>, e |-> <<>>, p |-> ps]
Prop(k, v) == [k |-> k, v |-> v]
EmptyObj == Obj(<<>>)
\* a built-in function, reached only as an inherited property
Fn(cs) == [t |-> "fn", n |-> 0, s |-> cs, e |-> <<>>, p |-> <<>>]

\* !x : undefined, null, false, 0 and "" are falsy
Falsy(v) ==
  \/ v.t \in {"undef", "null"}
  \/ v.t = "bool" /\ v.n = 0
  \/ v.t = "num" /\ v.n = 0
  \/ v.t = "str" /\ v.s = <<>>

\* lodash isObject: arrays, plain objects and functions
IsObject(v) == v.t \in {"arr", "obj", "fn"}

\* x == null
IsNil(v) == v.t \in {"undef", "null"}

RECURSIVE SizeOf(_)
RECURSIVE SizeOfSeq(_)
RECURSIVE SizeOfProps(_)
SizeOf(v) == 1 + SizeOfSeq(v.e) + SizeOfProps(v.p)
SizeOfSeq(es) == IF es = <<>> THEN 0 ELSE SizeOf(Head(es)) + SizeOfSeq(Tail(es))
SizeOfProps(ps) == IF ps = <<>> THEN 0 ELSE SizeOf(Head(ps).v) + SizeOfProps(Tail(ps))

RECURSIVE NumsWithin(_, _)
RECURSIVE NumsWithinSeq(_, _)
RECURSIVE NumsWithinProps(_, _)
NumsWithin(v, m) ==
  /\ v.t = "num" => (v.n <= m /\ v.n >= -m)
  /\ NumsWithinSeq(v.e, m)
  /\ NumsWithinProps(v.p, m)
NumsWithinSeq(es, m) ==
  IF es = <<>> THEN TRUE ELSE NumsWithin(Head(es), m) /\ NumsWithinSeq(Tail(es), m)
NumsWithinProps(ps, m) ==
  IF ps = <<>> THEN TRUE ELSE NumsWithin(Head(ps).v, m) /\ NumsWithinProps(Tail(ps), m)

----------------------------------------------------------------------------
(* Strings as character sequences *)

Digits == {"0", "1", "2"}
Letters == {"a", "b", "c", "n", "o", "r", "s", "t", "u", "x"}
WordChars == Digits \cup Letters

DigitVal(c) == CASE c = "0" -> 0 [] c = "1" -> 1 [] c = "2" -> 2

\* String.prototype.includes for a one-character needle
Includes(cs, c) == \E i \in 1..Len(cs) : cs[i] = c

\* String.prototype.split on a one-character separator
RECURSIVE SplitFrom(_, _, _, _)
SplitFrom(cs, c, i, cur) ==
  IF i > Len(cs) THEN <<cur>>
  ELSE IF cs[i] = c THEN <<cur>> \o SplitFrom(cs, c, i + 1, <<>>)
  ELSE SplitFrom(cs, c, i + 1, Append(cur, cs[i]))
Split(cs, c) == SplitFrom(cs, c, 1, <<>>)

\* Array.prototype.join with a one-character separator
RECURSIVE Join(_, _)
Join(parts, c) ==
  IF parts = <<>> THEN <<>>
  ELSE IF Len(parts) = 1 THEN parts[1]
  ELSE parts[1] \o <<c>> \o Join(Tail(parts), c)

AllDigits(cs) == \A i \in 1..Len(cs) : cs[i] \in Digits

\* lodash reIsUint /^(?:0|[1-9]\d*)$/
IsUint(cs) == cs # <<>> /\ AllDigits(cs) /\ (cs[1] = "0" => Len(cs) = 1)

RECURSIVE ToNum(_)
ToNum(cs) == IF cs = <<>> THEN 0 ELSE 10 * ToNum(SubSeq(cs, 1, Len(cs) - 1)) + DigitVal(cs[Len(cs)])

----------------------------------------------------------------------------
(* JavaScript property access on a value *)

RECURSIVE FindProp(_, _)
\* position of own named property k in ps, 0 when there is none
FindProp(ps, k) ==
  IF ps = <<>> THEN 0
  ELSE IF ps[Len(ps)].k = k THEN Len(ps)
  ELSE FindProp(SubSeq(ps, 1, Len(ps) - 1), k)

IsElemIndex(o, k) == IsUint(k) /\ ToNum(k) < Len(o.e)
IsCharIndex(o, k) == IsUint(k) /\ ToNum(k) < Len(o.s)

\* the property every value but null and undefined inherits from its
\* prototype, among the names the keys of this model spell
constructor == <<"c", "o", "n", "s", "t", "r", "u", "c", "t", "o", "r">>

\* o[k] for o neither null nor undefined: an own property, else the one found
\* on the prototype chain
GetProp(o, k) ==
  IF o.t = "arr" /\ IsElemIndex(o, k) THEN o.e[ToNum(k) + 1]
  ELSE IF o.t = "str" /\ IsCharIndex(o, k) THEN Str(<<o.s[ToNum(k) + 1]>>)
  ELSE IF FindProp(o.p, k) # 0 THEN o.p[FindProp(o.p, k)].v
  ELSE IF k = constructor /\ ~IsNil(o) THEN Fn(constructor)
  ELSE Undef

\* Object.prototype.hasOwnProperty.call(o, k)
HasOwn(o, k) ==
  \/ o.t = "arr" /\ IsElemIndex(o, k) /\ o.e[ToNum(k) + 1] # Undef
  \/ o.t = "str" /\ IsCharIndex(o, k)
  \/ FindProp(o.p, k) # 0

\* number of leading integer-like keys of ps that sort before integer-like key k
RECURSIVE UintsBelow(_, _)
UintsBelow(ps, k) ==
  IF ps = <<>> \/ ~IsUint(Head(ps).k) \/ ToNum(Head(ps).k) > ToNum(k) THEN 0
  ELSE 1 + UintsBelow(Tail(ps), k)

InsertAt(ps, i, x) == SubSeq(ps, 1, i) \o <<x>> \o SubSeq(ps, i + 1, Len(ps))

\* own-property order of a JavaScript object: integer-like keys ascending, then
\* the other keys in insertion order; a key that exists keeps its place
PutProp(ps, k, v) ==
  IF FindProp(ps, k) # 0 THEN [ps EXCEPT ![FindProp(ps, k)] = Prop(k, v)]
  ELSE IF IsUint(k) THEN InsertAt(ps, UintsBelow(ps, k), Prop(k, v))
  ELSE Append(ps, Prop(k, v))

RemoveProp(ps, k) ==
  IF FindProp(ps, k) = 0 THEN ps
  ELSE SubSeq(ps, 1, FindProp(ps, k) - 1) \o SubSeq(ps, FindProp(ps, k) + 1, Len(ps))

Holes(n) == [i \in 1..n |-> Undef]

\* o[k] = v for an array or plain object o; writing past the end of an array
\* leaves holes
AssignProp(o, k, v) ==
  IF o.t = "arr" /\ IsUint(k)
  THEN IF ToNum(k) < Len(o.e)
       THEN [o EXCEPT !.e[ToNum(k) + 1] = v]
       ELSE [o EXCEPT !.e = o.e \o Holes(ToNum(k) - Len(o.e)) \o <<v>>]
  ELSE [o EXCEPT !.p = PutProp(o.p, k, v)]

\* delete o[k] for an array or plain object o; an array keeps its length
DeleteProp(o, k) ==
  IF o.t = "arr" /\ IsUint(k)
  THEN IF ToNum(k) < Len(o.e) THEN [o EXCEPT !.e[ToNum(k) + 1] = Undef] ELSE o
  ELSE [o EXCEPT !.p = RemoveProp(o.p, k)]

----------------------------------------------------------------------------
(* lodash path handling, as called at index.ts lines 83, 111, 133, 154 *)

\* reIsPlainProp /^\w*$/
IsPlainProp(cs) == \A i \in 1..Len(cs) : cs[i] \in WordChars

\* reIsDeepProp: a '.' or a bracket pair with no bracket between
IsDeepProp(cs) ==
  \/ Includes(cs, ".")
  \/ \E i \in 1..Len(cs) : \E j \in (i + 1)..Len(cs) :
       /\ cs[i] = "[" /\ cs[j] = "]"
       /\ \A m \in (i + 1)..(j - 1) : cs[m] \notin {"[", "]"}

\* isKey(value, object) for a string value
IsKey(cs, o) == IsPlainProp(cs) \/ ~IsDeepProp(cs) \/ (~IsNil(o) /\ HasOwn(o, cs))

RECURSIVE WordRun(_, _)
\* length of the run of characters other than . [ ] that starts at i
WordRun(cs, i) ==
  IF i > Len(cs) \/ cs[i] \in {".", "[", "]"} THEN 0 ELSE 1 + WordRun(cs, i + 1)

RECURSIVE DigitRun(_, _)
DigitRun(cs, i) == IF i > Len(cs) \/ cs[i] \notin Digits THEN 0 ELSE 1 + DigitRun(cs, i + 1)

CharAt(cs, i) == IF i >= 1 /\ i <= Len(cs) THEN cs[i] ELSE ""

\* \[(-?\d+(?:\.\d+)?)\] at i: the position after the match, 0 when none
NumberEnd(cs, i) ==
  LET d1 == DigitRun(cs, i + 1)
      q == i + 1 + d1
      d2 == DigitRun(cs, q + 1)
  IN IF CharAt(cs, i) # "[" \/ d1 = 0 THEN 0
     ELSE IF CharAt(cs, q) = "]" THEN q + 1
     ELSE IF CharAt(cs, q) = "." /\ d2 > 0 /\ CharAt(cs, q + 1 + d2) = "]" THEN q + d2 + 2
     ELSE 0

\* (?:\.|\[\]) at i: its length, 0 when none
DotOrPair(cs, i) ==
  IF CharAt(cs, i) = "." THEN 1
  ELSE IF CharAt(cs, i) = "[" /\ CharAt(cs, i + 1) = "]" THEN 2
  ELSE 0

\* (?=(?:\.|\[\])(?:\.|\[\]|$)) at i
EmptyKeyAt(cs, i) ==
  /\ DotOrPair(cs, i) > 0
  /\ (i + DotOrPair(cs, i) > Len(cs) \/ DotOrPair(cs, i + DotOrPair(cs, i)) > 0)

RECURSIVE ScanPath(_, _)
\* the matches of rePropName from position i on, in order
ScanPath(cs, i) ==
  IF i > Len(cs) THEN <<>>
  ELSE IF WordRun(cs, i) > 0
    THEN <<SubSeq(cs, i, i + WordRun(cs, i) - 1)>> \o ScanPath(cs, i + WordRun(cs, i))
  ELSE IF NumberEnd(cs, i) > 0
    THEN <<SubSeq(cs, i + 1, NumberEnd(cs, i) - 2)>> \o ScanPath(cs, NumberEnd(cs, i))
  ELSE IF EmptyKeyAt(cs, i) THEN <<<<>>>> \o ScanPath(cs, i + 1)
  ELSE ScanPath(cs, i + 1)

\* lodash stringToPath
StringToPath(cs) ==
  (IF CharAt(cs, 1) = "." THEN <<<<>>>> ELSE <<>>) \o ScanPath(cs, 1)

\* lodash castPath(path, object) for a string path
CastPath(cs, o) == IF IsKey(cs, o) THEN <<cs>> ELSE StringToPath(cs)

----------------------------------------------------------------------------
(* lodash get / has / set / unset *)

RECURSIVE BaseGetFrom(_, _, _)
\* the loop of baseGet: stops at the first null or undefined
BaseGetFrom(o, path, i) ==
  IF i > Len(path) THEN o
  ELSE IF IsNil(o) THEN Undef
  ELSE BaseGetFrom(GetProp(o, path[i]), path, i + 1)

\* baseGet(object, path) for a path already cast
BaseGet(o, path) == IF path = <<>> THEN Undef ELSE BaseGetFrom(o, path, 1)

\* lodash.get(object, path) with no default
lodash_get(o, cs) == IF IsNil(o) THEN Undef ELSE BaseGet(o, CastPath(cs, o))

RECURSIVE HasPathFrom(_, _, _)
\* the loop of hasPath with baseHas, and the array-index clause that follows a
\* miss on the last key
HasPathFrom(o, path, i) ==
  IF i > Len(path) THEN TRUE
  ELSE IF ~IsNil(o) /\ HasOwn(o, path[i]) THEN HasPathFrom(GetProp(o, path[i]), path, i + 1)
  ELSE /\ i = Len(path)
       /\ ~IsNil(o)
       /\ o.t = "arr"
       /\ IsElemIndex(o, path[i])

\* lodash.has(object, path)
lodash_has(o, cs) ==
  /\ ~IsNil(o)
  /\ CastPath(cs, o) # <<>>
  /\ HasPathFrom(o, CastPath(cs, o), 1)

RECURSIVE BaseSetFrom(_, _, _, _)
\* the loop of baseSet: a missing or primitive step becomes [] when the next
\* key is an index and {} otherwise
BaseSetFrom(o, path, i, v) ==
  IF i = Len(path) THEN AssignProp(o, path[i], v)
  ELSE LET objValue == GetProp(o, path[i])
           child == IF IsObject(objValue) THEN objValue
                    ELSE IF IsUint(path[i + 1]) THEN Arr(<<>>)
                    ELSE EmptyObj
       IN AssignProp(o, path[i], BaseSetFrom(child, path, i + 1, v))

\* lodash.set(object, path, value): the object after the call; a primitive is
\* returned as it is
lodash_set(o, cs, v) ==
  IF ~IsObject(o) \/ CastPath(cs, o) = <<>> THEN o
  ELSE BaseSetFrom(o, CastPath(cs, o), 1, v)

RECURSIVE BaseUnsetFrom(_, _, _)
\* the object after delete parent[last(path)], where parent is reached by baseGet
BaseUnsetFrom(o, path, i) ==
  IF ~IsObject(o) THEN o
  ELSE IF i = Len(path) THEN DeleteProp(o, path[i])
  ELSE IF IsObject(GetProp(o, path[i]))
    THEN AssignProp(o, path[i], BaseUnsetFrom(GetProp(o, path[i]), path, i + 1))
  ELSE o

\* the object after lodash.unset(object, path)
lodash_unset(o, cs) ==
  IF IsNil(o) \/ CastPath(cs, o) = <<>> THEN o
  ELSE BaseUnsetFrom(o, CastPath(cs, o), 1)

\* what lodash.unset(object, path) returns: true when the parent is missing, and
\* otherwise the result of the delete operator, which is false only for a
\* non-configurable property (a character of a string)
lodash_unset_result(o, cs) ==
  LET path == CastPath(cs, o)
      parent == IF Len(path) < 2 THEN o ELSE BaseGet(o, SubSeq(path, 1, Len(path) - 1))
  IN \/ IsNil(parent)
     \/ path = <<>>
     \/ ~(parent.t = "str" /\ IsCharIndex(parent, path[Len(path)]))

----------------------------------------------------------------------------
(* The MessagePack codec (@msgpack/msgpack encode / decode), on the formats  *)
(* the values of this model use: nil, booleans, fixint, uint 8, int 8,       *)
(* fixstr, fixarray, fixmap.  A file is a sequence of bytes.                 *)

CharCode(c) ==
  CASE c = "a" -> 97 [] c = "b" -> 98 [] c = "c" -> 99 [] c = "x" -> 120
    [] c = "n" -> 110 [] c = "o" -> 111 [] c = "r" -> 114
    [] c = "s" -> 115 [] c = "t" -> 116 [] c = "u" -> 117
    [] c = "0" -> 48 [] c = "1" -> 49 [] c = "2" -> 50
    [] c = "." -> 46 [] c = "[" -> 91 [] c = "]" -> 93

Chars == WordChars \cup {".", "[", "]"}

\* the character of a byte; a byte outside the alphabet reads as "?"
CodeChar(b) == IF \E c \in Chars : CharCode(c) = b THEN CHOOSE c \in Chars : CharCode(c) = b ELSE "?"

EncodeString(cs) == <<160 + Len(cs)>> \o [i \in 1..Len(cs) |-> CharCode(cs[i])]

EncodeNumber(i) ==
  IF i >= 0 THEN (IF i < 128 THEN <<i>> ELSE <<204, i>>)
  ELSE IF i >= -32 THEN <<256 + i>>
  ELSE <<208, 256 + i>>

RECURSIVE Encode(_)
RECURSIVE EncodeElems(_)
RECURSIVE EncodeProps(_)
\* encode: undefined (a hole) is written as nil, an array is written by its
\* indexed elements only, an object by Object.keys in order
Encode(v) ==
  CASE v.t \in {"undef", "null"} -> <<192>>
    [] v.t = "bool" -> <<194 + v.n>>
    [] v.t = "num" -> EncodeNumber(v.n)
    [] v.t = "str" -> EncodeString(v.s)
    [] v.t = "arr" -> <<144 + Len(v.e)>> \o EncodeElems(v.e)
    [] v.t = "obj" -> <<128 + Len(v.p)>> \o EncodeProps(v.p)
EncodeElems(es) == IF es = <<>> THEN <<>> ELSE Encode(Head(es)) \o EncodeElems(Tail(es))
EncodeProps(ps) ==
  IF ps = <<>> THEN <<>>
  ELSE EncodeString(Head(ps).k) \o Encode(Head(ps).v) \o EncodeProps(Tail(ps))

DecodeFail == [ok |-> FALSE, v |-> Undef, next |-> 0]
Decoded(v, next) == [ok |-> TRUE, v |-> v, next |-> next]

RECURSIVE DecodeAt(_, _)
RECURSIVE DecodeElems(_, _, _, _)
RECURSIVE DecodeProps(_, _, _, _)
\* one value read at position i: running out of bytes, the unused type byte
\* 0xc1 and a map key that is not a string are errors
DecodeAt(b, i) ==
  IF i > Len(b) THEN DecodeFail
  ELSE LET h == b[i] IN
    CASE h < 128 -> Decoded(Num(h), i + 1)
      [] h >= 128 /\ h < 144 -> DecodeProps(b, i + 1, h - 128, EmptyObj)
      [] h >= 144 /\ h < 160 -> DecodeElems(b, i + 1, h - 144, <<>>)
      [] h >= 160 /\ h < 192 ->
           IF i + (h - 160) > Len(b) THEN DecodeFail
           ELSE Decoded(Str([j \in 1..(h - 160) |-> CodeChar(b[i + j])]), i + (h - 160) + 1)
      [] h = 192 -> Decoded(Null, i + 1)
      [] h = 194 -> Decoded(Bool(FALSE), i + 1)
      [] h = 195 -> Decoded(Bool(TRUE), i + 1)
      [] h = 204 -> IF i + 1 > Len(b) THEN DecodeFail ELSE Decoded(Num(b[i + 1]), i + 2)
      [] h = 208 -> IF i + 1 > Len(b) THEN DecodeFail
                    ELSE Decoded(Num(IF b[i + 1] < 128 THEN b[i + 1] ELSE b[i + 1] - 256), i + 2)
      [] h >= 224 -> Decoded(Num(h - 256), i + 1)
      [] OTHER -> DecodeFail
DecodeElems(b, i, n, acc) ==
  IF n = 0 THEN Decoded(Arr(acc), i)
  ELSE LET r == DecodeAt(b, i) IN
    IF ~r.ok THEN DecodeFail ELSE DecodeElems(b, r.next, n - 1, Append(acc, r.v))
DecodeProps(b, i, n, acc) ==
  IF n = 0 THEN Decoded(acc, i)
  ELSE LET k == DecodeAt(b, i) IN
    IF ~k.ok \/ k.v.t # "str" THEN DecodeFail
    ELSE LET r == DecodeAt(b, k.next) IN
      IF ~r.ok THEN DecodeFail
      ELSE DecodeProps(b, r.next, n - 1, AssignProp(acc, k.v.s, r.v))

\* decode(buffer): one value and nothing after it
Decode(b) ==
  LET r == DecodeAt(b, 1) IN
  IF r.ok /\ r.next = Len(b) + 1 THEN r ELSE DecodeFail

----------------------------------------------------------------------------
(* The Database class: the methods as functions of the Document *)

Threw == [t |-> "throw", n |-> 0, s |-> <<>>, e |-> <<>>, p |-> <<>>]

\* keys.shift() and keys.join('.') of key.split('.')
MainKey(key) == Head(Split(key, "."))
NestedKey(key) == Join(Tail(Split(key, ".")), ".")

\* get with "this.data[key] || defaultValue" on a key without '.'
getOrDefault(d, key, defaultValue) ==
  IF Includes(key, ".")
  THEN IF Falsy(GetProp(d, MainKey(key))) THEN defaultValue
       ELSE IF lodash_get(GetProp(d, MainKey(key)), NestedKey(key)) # Undef
         THEN lodash_get(GetProp(d, MainKey(key)), NestedKey(key))
       ELSE defaultValue
  ELSE IF ~Falsy(GetProp(d, key)) THEN GetProp(d, key) ELSE defaultValue

\* Database.get(key, defaultValue)
get(d, key, defaultValue) ==
  IF Includes(key, ".")
  THEN IF Falsy(GetProp(d, MainKey(key))) THEN defaultValue
       ELSE IF lodash_get(GetProp(d, MainKey(key)), NestedKey(key)) # Undef
         THEN lodash_get(GetProp(d, MainKey(key)), NestedKey(key))
       ELSE defaultValue
  ELSE IF GetProp(d, key) # Undef THEN GetProp(d, key) ELSE defaultValue

\* Database.has(key)
has(d, key) ==
  IF Includes(key, ".")
  THEN /\ ~Falsy(GetProp(d, MainKey(key)))
       /\ lodash_has(GetProp(d, MainKey(key)), NestedKey(key))
  ELSE GetProp(d, key) # Undef

\* this.data after the assignments of Database.set(key, value)
set(d, key, value) ==
  IF Includes(key, ".")
  THEN LET d1 == IF Falsy(GetProp(d, MainKey(key)))
                 THEN AssignProp(d, MainKey(key), EmptyObj)
                 ELSE d
       IN AssignProp(d1, MainKey(key),
                     lodash_set(GetProp(d1, MainKey(key)), NestedKey(key), value))
  ELSE AssignProp(d, key, value)

\* whether Database.delete(key) reaches one of its two save() calls
deleteActs(d, key) ==
  IF Includes(key, ".") THEN ~Falsy(GetProp(d, MainKey(key))) ELSE GetProp(d, key) # Undef

\* this.data after Database.delete(key)
delete(d, key) ==
  IF ~deleteActs(d, key) THEN d
  ELSE IF Includes(key, ".")
    THEN AssignProp(d, MainKey(key), lodash_unset(GetProp(d, MainKey(key)), NestedKey(key)))
  ELSE DeleteProp(d, key)

\* what Database.delete(key) returns
deleteResult(d, key) ==
  /\ deleteActs(d, key)
  /\ Includes(key, ".") => lodash_unset_result(GetProp(d, MainKey(key)), NestedKey(key))

\* newValue of Database.add(key, amount)
addValue(d, key, amount) ==
  LET currentValue == get(d, key, Num(0))
  IN (IF currentValue.t = "num" THEN currentValue.n ELSE 0) + amount

\* the array Database.push(key, value) works on, after array.push(value)
pushArray(d, key, value) ==
  LET array == get(d, key, Arr(<<>>)) IN [array EXCEPT !.e = Append(array.e, value)]

\* the callbacks handed to pull
Callbacks == {"isOne", "isNumber", "never"}
callback(cb, item) ==
  CASE cb = "isOne" -> item = Num(1)
    [] cb = "isNumber" -> item.t = "num"
    [] cb = "never" -> FALSE

RECURSIVE Filter(_, _)
\* array.filter(item => !callback(item)); filter skips the holes of the array
Filter(es, cb) ==
  IF es = <<>> THEN <<>>
  ELSE IF Head(es) = Undef \/ callback(cb, Head(es)) THEN Filter(Tail(es), cb)
  ELSE <<Head(es)>> \o Filter(Tail(es), cb)

\* pull without the negation of the callback: it keeps what it should remove
pullArrayKeepsMatches(d, key, cb) ==
  Arr(SelectSeq(get(d, key, Arr(<<>>)).e, LAMBDA item : item # Undef /\ callback(cb, item)))

\* newArray of Database.pull(key, callback)
pullArray(d, key, cb) == Arr(Filter(get(d, key, Arr(<<>>)).e, cb))

\* the decimal spelling of an array index
IndexKey(i) ==
  CASE i = 0 -> <<"0">> [] i = 1 -> <<"1">> [] i = 2 -> <<"2">> [] i = 3 -> <<"3">>
    [] i = 4 -> <<"4">> [] i = 5 -> <<"5">> [] OTHER -> <<"9">>

\* Object.entries(o) for o neither null nor undefined: the own enumerable
\* properties, index keys first (the holes of an array left out)
entries(o) ==
  LET present == SelectSeq([i \in 1..Len(o.e) |-> i], LAMBDA i : o.e[i] # Undef)
  IN [j \in 1..Len(present) |-> Prop(IndexKey(present[j] - 1), o.e[present[j]])]
     \o [j \in 1..Len(o.s) |-> Prop(IndexKey(j - 1), Str(<<o.s[j]>>))]
     \o o.p

\* the object literal ({ ID, data })
Pair(ID, value) == Obj(<<Prop(<<"I", "D">>, Str(ID)), Prop(<<"d", "a", "t", "a">>, value)>>)

\* all() with the pairs in reverse order
allReversed(d) ==
  LET es == entries(d)
  IN Arr([i \in 1..Len(es) |-> Pair(es[Len(es) + 1 - i].k, es[Len(es) + 1 - i].v)])

\* Database.all()
all(d) ==
  LET es == entries(d)
  IN Arr([i \in 1..Len(es) |-> Pair(es[i].k, es[i].v)])

----------------------------------------------------------------------------
(* The inputs explored.  Keys are spelled from the alphabet Chars, so no key  *)
(* names a property a plain object inherits (constructor, __proto__, ...).    *)

Keys ==
  { <<"a">>,
    <<"a", ".", "b">>, <<"a", ".", "b", ".", "c">>,
    <<"a", "[", "0", "]">>, <<"a", "[", "0", "]", ".", "b">>,
    <<"a", ".", "b", "[", "0", "]">> }

Values ==
  { Null, Num(0), Num(1), Str(<<"x">>), EmptyObj, Arr(<<Num(1)>>) }

Amounts == {1}

Defaults == {Null, Num(1)}

Missing == [exists |-> FALSE, bytes |-> <<>>]
OnDisk(b) == [exists |-> TRUE, bytes |-> b]

\* the file found by the constructor: absent, zero-length, not decodable (the
\* unused type byte, a truncated map), or an encoded Document
InitialFiles ==
  { Missing, OnDisk(<<>>), OnDisk(<<193>>), OnDisk(<<129>>),
    OnDisk(Encode(EmptyObj)), OnDisk(Encode(Obj(<<Prop(<<"a">>, Num(1))>>))) }

\* the Documents explored: at most MaxSize nodes below the root, numbers
\* within MaxNum
Bounded(d) == SizeOf(d) <= MaxSize + 1 /\ NumsWithin(d, MaxNum)

----------------------------------------------------------------------------
(* The Database class: state and operations *)

\* the call just made: arg is the value, amount or default passed (for pull,
\* the array it found at key), note the callback of pull or the branch load()
\* took, ret what the call returned
Call(op, key, arg, note, ret) ==
  [op |-> op, key |-> key, arg |-> arg, note |-> note, ret |-> ret]

\* the file after save(): encode and writeFileSync, which opens the file with
\* flag 'w' and then writes.  When the open fails ("denied": no permission, a
\* read-only file system) the file is as it was; when the write fails after
\* the open ("full": no space left) the file is left created or truncated.
\* Either error is caught and logged.
Saved(d) ==
  CASE disk = "ok" -> OnDisk(Encode(d))
    [] disk = "denied" -> file
    [] disk = "full" -> OnDisk(<<>>)

\* a mutating method that saved whatever the autoSave option says
AutoSavedAlways(d) == Saved(d)

\* the file after the "if (this.autoSave) this.save()" of a mutating method
AutoSaved(d) == IF autoSave THEN Saved(d) ELSE file

\* what a method hands back after it called save(): save() catches and logs
\* the error of a failing write, so the method goes on and returns ret
AfterSave(ret) == ret

\* the same after "if (this.autoSave) this.save()"
AfterAutoSave(ret) == IF autoSave THEN AfterSave(ret) ELSE ret

\* this.data after load(), starting from the {} of the constructor
loadData(f) ==
  IF f.exists /\ f.bytes # <<>> /\ Decode(f.bytes).ok THEN Decode(f.bytes).v ELSE EmptyObj

\* the file after load() when its catch block does not save
loadFileNoSaveOnError(f) == IF ~f.exists THEN Saved(EmptyObj) ELSE f

\* the file after load(): saved when it was absent or failed to decode
loadFile(f) ==
  IF ~f.exists \/ (f.bytes # <<>> /\ ~Decode(f.bytes).ok) THEN Saved(EmptyObj) ELSE f

\* the branch load() takes: the file is absent, zero-length, decoded, or
\* decode threw and the error was logged
loadBranch(f) ==
  IF ~f.exists THEN "absent"
  ELSE IF f.bytes = <<>> THEN "empty"
  ELSE IF Decode(f.bytes).ok THEN "decoded"
  ELSE "error"

\* no second instance has been constructed
NoInstance == [made |-> FALSE, data |-> EmptyObj]

\* the constructor before load(): this.data = {} and the options taken
Init ==
  /\ data = EmptyObj
  /\ file \in InitialFiles
  /\ autoSave = TRUE
  /\ last = Call("none", <<>>, Undef, "", Undef)
  /\ cacheData = TRUE
  /\ disk = "ok"
  /\ other = NoInstance

Idle == Call("idle", <<>>, Undef, "", Undef)

\* the caller holds a constructed Database and is between two calls
Ready == last = Idle

\* new Database(options) on the file as it is: this.data = {} and load()
Open ==
  /\ last.op = "none" \/ Ready
  /\ data' = loadData(file)
  /\ file' = loadFile(file)
  /\ last' = Call("new", <<>>, Undef, loadBranch(file),
                   IF loadBranch(file) \in {"absent", "error"} THEN AfterSave(Undef) ELSE Undef)
  /\ UNCHANGED fixed

Set(key, value) ==
  /\ Ready
  /\ Bounded(set(data, key, value))
  /\ data' = set(data, key, value)
  /\ file' = AutoSaved(data')
  /\ last' = Call("set", key, value, "", AfterAutoSave(value))
  /\ UNCHANGED fixed

Get(key, defaultValue) ==
  /\ Ready
  /\ last' = Call("get", key, defaultValue, "", get(data, key, defaultValue))
  /\ UNCHANGED <<data, file, fixed>>

Has(key) ==
  /\ Ready
  /\ last' = Call("has", key, Undef, "", Bool(has(data, key)))
  /\ UNCHANGED <<data, file, fixed>>

Delete(key) ==
  /\ Ready
  /\ data' = delete(data, key)
  /\ file' = IF deleteActs(data, key) THEN AutoSaved(data') ELSE file
  /\ last' = Call("delete", key, Undef, "",
                   IF deleteActs(data, key) THEN AfterAutoSave(Bool(deleteResult(data, key)))
                   ELSE Bool(FALSE))
  /\ UNCHANGED fixed

Add(key, amount) ==
  /\ Ready
  /\ Bounded(set(data, key, Num(addValue(data, key, amount))))
  /\ data' = set(data, key, Num(addValue(data, key, amount)))
  /\ file' = AutoSaved(data')
  /\ last' = Call("add", key, Num(amount), "", AfterAutoSave(Num(addValue(data, key, amount))))
  /\ UNCHANGED fixed

Subtract(key, amount) ==
  /\ Ready
  /\ Bounded(set(data, key, Num(addValue(data, key, -amount))))
  /\ data' = set(data, key, Num(addValue(data, key, -amount)))
  /\ file' = AutoSaved(data')
  /\ last' = Call("subtract", key, Num(amount), "",
                   AfterAutoSave(Num(addValue(data, key, -amount))))
  /\ UNCHANGED fixed

\* push without the Array.isArray check: a value that is no array is replaced
PushNoTypeCheck(key, value) ==
  /\ Ready
  /\ LET array == IF get(data, key, Arr(<<>>)).t = "arr"
                  THEN pushArray(data, key, value)
                  ELSE Arr(<<value>>)
     IN /\ Bounded(set(data, key, array))
        /\ data' = set(data, key, array)
        /\ file' = AutoSaved(data')
        /\ last' = Call("push", key, value, "", array)
  /\ UNCHANGED fixed

Push(key, value) ==
  /\ Ready
  /\ IF get(data, key, Arr(<<>>)).t # "arr"
     THEN /\ last' = Call("push", key, value, "", Threw)
          /\ UNCHANGED <<data, file>>
     ELSE /\ Bounded(set(data, key, pushArray(data, key, value)))
          /\ data' = set(data, key, pushArray(data, key, value))
          /\ file' = AutoSaved(data')
          /\ last' = Call("push", key, value, "", AfterAutoSave(pushArray(data, key, value)))
  /\ UNCHANGED fixed

Pull(key, cb) ==
  /\ Ready
  /\ IF get(data, key, Arr(<<>>)).t # "arr"
     THEN /\ last' = Call("pull", key, get(data, key, Arr(<<>>)), cb, Threw)
          /\ UNCHANGED <<data, file>>
     ELSE /\ Bounded(set(data, key, pullArray(data, key, cb)))
          /\ data' = set(data, key, pullArray(data, key, cb))
          /\ file' = AutoSaved(data')
          /\ last' = Call("pull", key, get(data, key, Arr(<<>>)), cb,
                           AfterAutoSave(pullArray(data, key, cb)))
  /\ UNCHANGED fixed

Clear ==
  /\ Ready
  /\ data' = EmptyObj
  /\ file' = AutoSaved(data')
  /\ last' = Call("clear", <<>>, Undef, "", AfterAutoSave(Undef))
  /\ UNCHANGED fixed

All ==
  /\ Ready
  /\ last' = Call("all", <<>>, Undef, "", all(data))
  /\ UNCHANGED <<data, file, fixed>>

Save ==
  /\ Ready
  /\ file' = Saved(data)
  /\ last' = Call("save", <<>>, Undef, "", AfterSave(Undef))
  /\ UNCHANGED <<data, fixed>>

\* the caller takes the result of the call and goes on
Return ==
  /\ last.op \notin {"none", "idle"}
  /\ last' = Idle
  /\ UNCHANGED <<data, file, fixed>>

Next ==
  \/ Open
  \/ Return
  \/ \E key \in Keys : \E value \in Values : Set(key, value)
  \/ \E key \in Keys : \E defaultValue \in Defaults : Get(key, defaultValue)
  \/ \E key \in Keys : Has(key)
  \/ \E key \in Keys : Delete(key)
  \/ \E key \in Keys : \E amount \in Amounts : Add(key, amount)
  \/ \E key \in Keys : \E amount \in Amounts : Subtract(key, amount)
  \/ \E key \in Keys : \E value \in Values : Push(key, value)
  \/ \E key \in Keys : \E cb \in Callbacks : Pull(key, cb)
  \/ All
  \/ Clear
  \/ Save

Spec == Init /\ [][Next]_vars

\* the same Database driven with root keys only: a plain name and the two
\* integer-like names "0" and "1"; the reads and delete are also given the
\* inherited name "constructor"
RootKeys == { <<"a">>, <<"0">>, <<"1">> }
ReadKeys == RootKeys \cup {constructor}
RootValues == {Null, Num(1), EmptyObj}

NextRoots ==
  \/ Open
  \/ Return
  \/ \E key \in RootKeys : \E value \in RootValues : Set(key, value)
  \/ \E key \in ReadKeys : \E defaultValue \in Defaults : Get(key, defaultValue)
  \/ \E key \in ReadKeys : Has(key)
  \/ \E key \in ReadKeys : Delete(key)
  \/ \E key \in RootKeys : \E amount \in Amounts : Add(key, amount)
  \/ \E key \in RootKeys : \E amount \in Amounts : Subtract(key, amount)
  \/ \E key \in RootKeys : \E value \in RootValues : Push(key, value)
  \/ \E key \in RootKeys : \E cb \in Callbacks : Pull(key, cb)
  \/ All
  \/ Clear
  \/ Save

SpecRoots == Init /\ [][NextRoots]_vars

----------------------------------------------------------------------------
(* The Database where the file and this.data may differ: with autoSave off,  *)
(* or with a file that cannot be written.  The inputs are fewer, the         *)
(* methods the same.                                                          *)

SmallKeys == { <<"a">>, <<"a", ".", "b">> }
SmallValues == {Null, Num(1)}

NextSmall ==
  \/ Open
  \/ Return
  \/ \E key \in SmallKeys : \E value \in SmallValues : Set(key, value)
  \/ \E key \in SmallKeys : \E defaultValue \in Defaults : Get(key, defaultValue)
  \/ \E key \in SmallKeys : Has(key)
  \/ \E key \in SmallKeys : Delete(key)
  \/ \E key \in SmallKeys : \E amount \in Amounts : Add(key, amount)
  \/ \E key \in SmallKeys : \E amount \in Amounts : Subtract(key, amount)
  \/ \E key \in SmallKeys : \E value \in SmallValues : Push(key, value)
  \/ \E key \in SmallKeys : \E cb \in Callbacks : Pull(key, cb)
  \/ All
  \/ Clear
  \/ Save

\* new Database({ autoSave: false })
InitManual ==
  /\ data = EmptyObj
  /\ file \in InitialFiles
  /\ autoSave = FALSE
  /\ last = Call("none", <<>>, Undef, "", Undef)
  /\ cacheData = TRUE
  /\ disk = "ok"
  /\ other = NoInstance

SpecManual == InitManual /\ [][NextSmall]_vars

\* the surroundings change: writing the file starts to fail, or works again
DiskChange(to) ==
  /\ Ready
  /\ to # disk
  /\ disk' = to
  /\ UNCHANGED <<data, file, autoSave, last, cacheData, other>>

NextFaulty == NextSmall \/ \E to \in {"ok", "denied", "full"} : DiskChange(to)

SpecFaulty == Init /\ [][NextFaulty]_vars

----------------------------------------------------------------------------
(* The Database constructed on a file that decodes, but not to a mapping:    *)
(* load() assigns whatever decode returns.  The files explored hold a        *)
(* sequence, on which every method is defined as on any other object.        *)

ForeignFiles ==
  { OnDisk(Encode(Arr(<<>>))), OnDisk(Encode(Arr(<<Num(1)>>))),
    OnDisk(Encode(Arr(<<EmptyObj>>))) }

InitForeign ==
  /\ data = EmptyObj
  /\ file \in ForeignFiles \cup {Missing, OnDisk(Encode(EmptyObj))}
  /\ autoSave = TRUE
  /\ last = Call("none", <<>>, Undef, "", Undef)
  /\ cacheData = TRUE
  /\ disk = "ok"
  /\ other = NoInstance

SpecForeign == InitForeign /\ [][NextSmall]_vars

----------------------------------------------------------------------------
(* Two Database instances on one file.  The second instance is constructed   *)
(* with the default options (autoSave on); its calls are recorded in last     *)
(* with the prefix "other.".                                                  *)

TwoKeys == { <<"a">>, <<"b">> }
TwoValues == {Null, Num(1)}

\* new Database(options) for the second instance
OtherOpen ==
  /\ Ready
  /\ other' = [made |-> TRUE, data |-> loadData(file)]
  /\ file' = loadFile(file)
  /\ last' = Call("other.new", <<>>, Undef, loadBranch(file),
                   IF loadBranch(file) \in {"absent", "error"} THEN AfterSave(Undef) ELSE Undef)
  /\ UNCHANGED <<data, autoSave, cacheData, disk>>

\* set on the second instance, were this.data shared by all instances
OtherSetSharedData(key, value) ==
  /\ Ready
  /\ other.made
  /\ Bounded(set(other.data, key, value))
  /\ other' = [other EXCEPT !.data = set(other.data, key, value)]
  /\ data' = other'.data
  /\ file' = Saved(other'.data)
  /\ last' = Call("other.set", key, value, "", AfterSave(value))
  /\ UNCHANGED <<autoSave, cacheData, disk>>

OtherSet(key, value) ==
  /\ Ready
  /\ other.made
  /\ Bounded(set(other.data, key, value))
  /\ other' = [other EXCEPT !.data = set(other.data, key, value)]
  /\ file' = Saved(other'.data)
  /\ last' = Call("other.set", key, value, "", AfterSave(value))
  /\ UNCHANGED <<data, autoSave, cacheData, disk>>

OtherGet(key, defaultValue) ==
  /\ Ready
  /\ other.made
  /\ last' = Call("other.get", key, defaultValue, "", get(other.data, key, defaultValue))
  /\ UNCHANGED <<data, file, fixed>>

OtherDelete(key) ==
  /\ Ready
  /\ other.made
  /\ other' = [other EXCEPT !.data = delete(other.data, key)]
  /\ file' = IF deleteActs(other.data, key) THEN Saved(other'.data) ELSE file
  /\ last' = Call("other.delete", key, Undef, "",
                   IF deleteActs(other.data, key) THEN AfterSave(Bool(deleteResult(other.data, key)))
                   ELSE Bool(FALSE))
  /\ UNCHANGED <<data, autoSave, cacheData, disk>>

\* the first instance is constructed with cacheData true or false
InitTwo ==
  /\ data = EmptyObj
  /\ file \in InitialFiles
  /\ autoSave = TRUE
  /\ last = Call("none", <<>>, Undef, "", Undef)
  /\ cacheData \in BOOLEAN
  /\ disk = "ok"
  /\ other = NoInstance

NextTwo ==
  \/ Open
  \/ Return
  \/ \E key \in TwoKeys : \E value \in TwoValues : Set(key, value)
  \/ \E key \in TwoKeys : \E defaultValue \in Defaults : Get(key, defaultValue)
  \/ \E key \in TwoKeys : Has(key)
  \/ \E key \in TwoKeys : Delete(key)
  \/ \E key \in TwoKeys : \E amount \in Amounts : Add(key, amount)
  \/ All
  \/ Clear
  \/ Save
  \/ OtherOpen
  \/ \E key \in TwoKeys : \E value \in TwoValues : OtherSet(key, value)
  \/ \E key \in TwoKeys : \E defaultValue \in Defaults : OtherGet(key, defaultValue)
  \/ \E key \in TwoKeys : OtherDelete(key)

SpecTwo == InitTwo /\ [][NextTwo]_vars

----------------------------------------------------------------------------
(* Properties *)

Mutators == {"set", "delete", "add", "subtract", "push", "pull", "clear"}

\* C1: with autoSave on, after the constructor and after every completed
\* public operation, a new Database on the file would load exactly the
\* Document held in memory.
C1_FileDecodesToDocument ==
  (autoSave /\ last.op \in Mutators \cup {"new", "save"}) => loadData(file) = data

Prefix(key, m) == Join(SubSeq(Split(key, "."), 1, m), ".")
Rest(key, m) == Join(SubSeq(Split(key, "."), m + 1, Len(Split(key, "."))), ".")

\* C3: after set(p, v) on a dotted path p, get(p) returns v, and get of every
\* proper prefix of p returns a container holding v at the remaining path.
C3_NestedRoundTrip ==
  (last.op = "set" /\ Includes(last.key, ".")) =>
    /\ get(data, last.key, Null) = last.arg
    /\ \A m \in 1..(Len(Split(last.key, ".")) - 1) :
         /\ IsObject(get(data, Prefix(last.key, m), Null))
         /\ lodash_get(get(data, Prefix(last.key, m), Null), Rest(last.key, m)) = last.arg

DigitChar(i) == CASE i = 0 -> "0" [] i = 1 -> "1" [] i = 2 -> "2"
Bracket(i) == <<"[", DigitChar(i), "]">>

\* C4: when root key r holds a sequence s and i is an index of s, get("r[i]")
\* returns s[i], and get("r[i].b") is resolved inside s[i].
C4_RootIndexPath ==
  \A r \in {<<"a">>} : \A i \in 0..2 :
    (Ready /\ GetProp(data, r).t = "arr" /\ i < Len(GetProp(data, r).e)) =>
      /\ get(data, r \o Bracket(i), Null) = GetProp(data, r).e[i + 1]
      /\ get(data, r \o Bracket(i) \o <<".", "b">>, Undef)
           = lodash_get(GetProp(data, r).e[i + 1], <<"b">>)

\* C5: has(k) is true right after set(k, v) and false right after delete(k).
C5_HasAfterSetAndDelete ==
  /\ last.op = "set" => has(data, last.key)
  /\ last.op = "delete" => ~has(data, last.key)

\* C6: delete(k) returns true exactly when it removed something; on a key or
\* path that is not present it returns false and leaves the Document as it was.
C6_DeleteTrueIffRemoved ==
  [][last'.op = "delete" =>
       /\ last'.ret = Bool(data' # data)
       /\ ~has(data, last'.key) => (last'.ret = Bool(FALSE) /\ data' = data)
       /\ has(data, last'.key) => (last'.ret = Bool(TRUE) /\ ~has(data', last'.key))]_vars

\* C7 as stated: constructing on a file that is missing, zero-length or not
\* decodable leaves an empty Document and the encoding of the empty mapping in
\* the file.
C7_LoadAlwaysWritesEmpty ==
  (last.op = "new" /\ last.note \in {"absent", "empty", "error"}) =>
    (data = EmptyObj /\ file = OnDisk(Encode(EmptyObj)))

\* C7 amended: the constructor returns normally; on a missing or undecodable
\* file the Document starts empty and the file holds the encoding of the empty
\* mapping; on a zero-length file the Document starts empty and the file is
\* left zero-length.
C7_LoadHealsMissingOrCorrupt ==
  last.op = "new" =>
    /\ last.ret # Threw
    /\ last.note \in {"absent", "error"} =>
         (data = EmptyObj /\ file = OnDisk(Encode(EmptyObj)) /\ Decode(file.bytes).v = EmptyObj)
    /\ last.note = "empty" => (data = EmptyObj /\ file = OnDisk(<<>>))

C7_Witness ==
  /\ last.op = "new"
  /\ last.note = "error"
  /\ data = EmptyObj
  /\ file = OnDisk(<<128>>)

\* the value push and pull find at key, Undef when there is none
Current(d, key) == get(d, key, Undef)

\* C8: push or pull on a key whose value exists and is not a sequence throws
\* and leaves the Document and the file as they were.
C8_TypeMismatchChangesNothing ==
  [][(last'.op \in {"push", "pull"} /\ has(data, last'.key)
        /\ Current(data, last'.key).t \notin {"undef", "arr"}) =>
       (last'.ret = Threw /\ data' = data /\ file' = file)]_vars

C8_Witness ==
  /\ last.op = "push"
  /\ last.ret = Threw
  /\ last.key = <<"a", ".", "b">>
  /\ get(data, last.key, Undef) = Null

\* the number add starts from: the value at key when it is a number, else 0
Prior(d, key) == IF Current(d, key).t = "num" THEN Current(d, key).n ELSE 0

\* C9: add(k, n) returns prior + n and get(k) right after it returns that
\* number; subtract(k, n) does the same with -n.
C9_AddThenGet ==
  [][/\ last'.op = "add" =>
          /\ last'.ret = Num(Prior(data, last'.key) + last'.arg.n)
          /\ get(data', last'.key, Null) = last'.ret
     /\ last'.op = "subtract" =>
          /\ last'.ret = Num(Prior(data, last'.key) - last'.arg.n)
          /\ get(data', last'.key, Null) = last'.ret]_vars

\* C10: push(k, v) on a key that is absent or holds a sequence s returns s
\* with v appended, and get(k) right after it returns that sequence.
C10_PushThenGet ==
  [][(last'.op = "push" /\ Current(data, last'.key).t \in {"undef", "arr"}) =>
       /\ last'.ret.t = "arr"
       /\ last'.ret.e = (IF Current(data, last'.key).t = "arr"
                         THEN Current(data, last'.key).e ELSE <<>>) \o <<last'.arg>>
       /\ get(data', last'.key, Null) = last'.ret]_vars

\* the elements of s the callback of pull does not match, in their order; a
\* hole of s is no element
Unmatched(s, cb) == SelectSeq(s, LAMBDA x : x # Undef /\ ~callback(cb, x))

\* C11: pull(k, predicate) on a key holding a sequence s returns exactly the
\* elements of s for which the predicate is false, in their order, and get(k)
\* right after it returns that sequence.
C11_PullKeepsUnmatched ==
  [][(last'.op = "pull" /\ Current(data, last'.key).t = "arr") =>
       /\ last'.ret = Arr(Unmatched(Current(data, last'.key).e, last'.note))
       /\ get(data', last'.key, Null) = last'.ret]_vars

C11_Witness ==
  /\ last.op = "pull"
  /\ last.note = "isOne"
  /\ last.arg = Arr(<<Num(1), Str(<<"x">>)>>)
  /\ last.ret = Arr(<<Str(<<"x">>)>>)
  /\ get(data, last.key, Null) = last.ret

\* the names a root key of the Document may have under the keys explored
RootNames == ReadKeys \cup {MainKey(key) : key \in Keys}

Range(f) == {f[i] : i \in DOMAIN f}

\* the IDs of the pairs all() returns on Document d, in their order
AllIDs(d) ==
  LET pairs == all(d).e
  IN [i \in 1..Len(pairs) |-> GetProp(pairs[i], <<"I", "D">>).s]

\* all() on d returns one {ID, data} pair for each root key of d and no other,
\* data being the value stored under ID
OnePairPerRootKey(d) ==
  LET pairs == all(d).e
      ids == [i \in 1..Len(pairs) |-> GetProp(pairs[i], <<"I", "D">>).s]
  IN /\ all(d).t = "arr"
     /\ \A i \in 1..Len(pairs) :
          /\ Len(pairs[i].p) = 2
          /\ HasOwn(d, ids[i])
          /\ GetProp(pairs[i], <<"d", "a", "t", "a">>) = GetProp(d, ids[i])
          /\ \A j \in 1..Len(pairs) : ids[j] = ids[i] => j = i
     /\ \A k \in RootNames : HasOwn(d, k) => k \in Range(ids)

\* ids2 follows from ids by insertion order: the keys that stay keep their
\* relative order and every new key comes after them
InsertionOrdered(ids, ids2) ==
  LET old == Range(ids)
      new == Range(ids2)
  IN /\ SelectSeq(ids2, LAMBDA k : k \in old) = SelectSeq(ids, LAMBDA k : k \in new)
     /\ \A i \in 1..Len(ids2) : \A j \in 1..Len(ids2) :
          (i < j /\ ids2[i] \notin old) => ids2[j] \notin old

NotUint(ids) == SelectSeq(ids, LAMBDA k : ~IsUint(k))

\* the integer-like names of ids come first, in ascending numeric order
UintsFirst(ids) ==
  \A i \in 1..Len(ids) : \A j \in 1..Len(ids) :
    (i < j /\ IsUint(ids[j])) => (IsUint(ids[i]) /\ ToNum(ids[i]) < ToNum(ids[j]))

C13_ClearEmptiesEverything ==
  last.op = "clear" =>
    /\ all(data) = Arr(<<>>)
    /\ \A k \in Keys \cup ReadKeys : ~has(data, k)
    /\ autoSave => (file = OnDisk(Encode(EmptyObj)) /\ Decode(file.bytes).v = EmptyObj)

\* C14: an instance constructed with cacheData false re-reads the file on
\* every call, so get, has and all answer from the file as it is now, whoever
\* wrote it last.
C14_UncachedReadsSeeTheFile ==
  ~cacheData =>
    /\ last.op = "get" => last.ret = get(loadData(file), last.key, last.arg)
    /\ last.op = "has" => last.ret = Bool(has(loadData(file), last.key))
    /\ last.op = "all" => last.ret = all(loadData(file))

OtherOps == {"other.new", "other.set", "other.get", "other.delete"}

\* the call just made wrote the file: a mutating method that did not return
\* early, or save()
Wrote(call, ops) ==
  \/ call.op \in ops \ {"delete", "other.delete"}
  \/ call.op \in ops /\ call.ret = Bool(TRUE)

\* C18: with two instances on one file, both with autoSave on, every write
\* leaves in the file the whole Document of the instance that made the call,
\* so a key set only through the other instance is gone from the file; and no
\* call on one instance changes what the other instance answers.
C18_LastWriterWins ==
  [][/\ Wrote(last', {"set", "delete", "add", "clear", "save"}) =>
          /\ file' = OnDisk(Encode(data'))
          /\ \A k \in TwoKeys : has(loadData(file'), k) = has(data', k)
     /\ Wrote(last', {"other.set", "other.delete"}) =>
          /\ file' = OnDisk(Encode(other'.data))
          /\ \A k \in TwoKeys : has(loadData(file'), k) = has(other'.data, k)
     /\ last'.op \in OtherOps =>
          \A k \in TwoKeys : get(data', k, Undef) = get(data, k, Undef)
     /\ (other.made /\ last'.op \notin OtherOps) =>
          \A k \in TwoKeys : get(other'.data, k, Undef) = get(other.data, k, Undef)]_vars

C18_Witness ==
  /\ last.op = "set"
  /\ last.key = <<"a">>
  /\ other.made
  /\ has(other.data, <<"b">>)
  /\ ~has(data, <<"b">>)
  /\ ~has(loadData(file), <<"b">>)
  /\ file = OnDisk(Encode(data))

\* what a call returns and leaves in this.data when every write succeeds
Usual(call, d) ==
  CASE call.op = "set" -> [ret |-> call.arg, data |-> set(d, call.key, call.arg)]
    [] call.op = "delete" ->
         [ret |-> Bool(deleteResult(d, call.key)), data |-> delete(d, call.key)]
    [] call.op = "add" ->
         [ret |-> Num(addValue(d, call.key, call.arg.n)),
          data |-> set(d, call.key, Num(addValue(d, call.key, call.arg.n)))]
    [] call.op = "subtract" ->
         [ret |-> Num(addValue(d, call.key, -call.arg.n)),
          data |-> set(d, call.key, Num(addValue(d, call.key, -call.arg.n)))]
    [] call.op = "push" ->
         IF get(d, call.key, Arr(<<>>)).t # "arr" THEN [ret |-> Threw, data |-> d]
         ELSE [ret |-> pushArray(d, call.key, call.arg),
               data |-> set(d, call.key, pushArray(d, call.key, call.arg))]
    [] call.op = "pull" ->
         IF get(d, call.key, Arr(<<>>)).t # "arr" THEN [ret |-> Threw, data |-> d]
         ELSE [ret |-> pullArray(d, call.key, call.note),
               data |-> set(d, call.key, pullArray(d, call.key, call.note))]
    [] call.op = "clear" -> [ret |-> Undef, data |-> EmptyObj]
    [] call.op = "save" -> [ret |-> Undef, data |-> d]

\* C15: when the write inside save() fails, save() and every auto-persisting
\* method still return their usual result, this.data keeps the mutation, and
\* the file keeps the content it had.
C15_FailedWriteIsSwallowed ==
  [][(disk # "ok" /\ last'.op \in Mutators \cup {"save"}) =>
       /\ last'.ret = Usual(last', data).ret
       /\ data' = Usual(last', data).data
       /\ file' = file]_vars

\* C16: the Document is a mapping at its root in every reachable state,
\* whatever the file held at construction and whatever was called since.
C16_RootIsMapping == data.t = "obj"

\* C17: set on a dotted path whose root key is present with a value that is
\* not a container (0, null, a string, ...) keeps that value under the root
\* key: only an absent root key is initialised to an empty mapping.
C17_SetKeepsPresentRoot ==
  [][(/\ last'.op = "set" /\ Includes(last'.key, ".")
      /\ HasOwn(data, MainKey(last'.key))
      /\ ~IsObject(GetProp(data, MainKey(last'.key)))) =>
       GetProp(data', MainKey(last'.key)) = GetProp(data, MainKey(last'.key))]_vars

\* C19: with autoSave off, no call of set, delete, add, subtract, push, pull
\* or clear changes the file; after construction the file changes only in a
\* call of save(), which leaves the Document alone and makes the file the
\* encoding of the Document.
C19_OnlySaveWritesWhenManual ==
  [][~autoSave =>
       /\ last'.op \in Mutators => file' = file
       /\ file' # file => last'.op \in {"new", "save"}
       /\ last'.op = "save" => (data' = data /\ file' = OnDisk(Encode(data)))]_vars

\* a mutating call has returned normally with autoSave off, and the file still
\* holds a Document other than the one in memory
C19_Witness ==
  /\ ~autoSave
  /\ last.op \in Mutators
  /\ last.ret # Threw
  /\ data # EmptyObj
  /\ loadData(file) # data

\* the operations that address one key or path
Addressed == Mutators \ {"clear"}

\* C20: set, delete, add, subtract, push and pull on a key or path with root
\* key r leave every other root key as it was, and when r is present and holds
\* a value that is not a container, so that the nested path cannot be
\* resolved, the Document is left as it was.
C20_SiblingsAndFailedPathsUntouched ==
  [][last'.op \in Addressed =>
       LET r == MainKey(last'.key)
       IN /\ \A k \in RootNames \ {r} :
               /\ HasOwn(data', k) <=> HasOwn(data, k)
               /\ GetProp(data', k) = GetProp(data, k)
          /\ (/\ Includes(last'.key, ".")
              /\ HasOwn(data, r)
              /\ ~IsObject(GetProp(data, r))) => data' = data]_vars

====
